---------------------------- MODULE Spec2Model ----------------------------
(***************************************************************************)
(* The DSSE Envelope of securesystemslib/metadata.py: pre-authentication   *)
(* encoding, wire (de)serialisation, signing and threshold verification.   *)
(*                                                                         *)
(* Bytes are sequences of integers 0..255, text is a sequence of Unicode   *)
(* code points.  An Envelope object is the three variables payload,        *)
(* payload_type and signatures; op, arg, ret and calls record the last     *)
(* call made on it, its arguments, what it returned or raised, and the     *)
(* key.verify_signature calls it made, in order.                           *)
(***************************************************************************)
EXTENDS Integers, Sequences, FiniteSets

VARIABLES payload, payload_type, signatures, op, arg, ret, calls

vars == <<payload, payload_type, signatures, op, arg, ret, calls>>

(***************************************************************************)
(* Bounds of the model.                                                    *)
(***************************************************************************)
MaxTypeLen == 2
MaxPayloadLen == 2
MaxSigs == 2
MaxKeys == 3

\* All sequences over S of length at most n.
BoundedSeq(S, n) == UNION {[1..m -> S] : m \in 0..n}

RECURSIVE Flatten(_)
Flatten(ss) == IF ss = <<>> THEN <<>> ELSE Head(ss) \o Flatten(Tail(ss))

(***************************************************************************)
(* Text and byte formatting used by pae().                                 *)
(***************************************************************************)
\* str.encode("utf-8") of one code point.
EncodeChar(c) ==
    IF c < 128 THEN <<c>>
    ELSE IF c < 2048 THEN <<192 + (c \div 64), 128 + (c % 64)>>
    ELSE IF c < 65536
         THEN <<224 + (c \div 4096), 128 + ((c \div 64) % 64), 128 + (c % 64)>>
    ELSE <<240 + (c \div 262144), 128 + ((c \div 4096) % 64),
           128 + ((c \div 64) % 64), 128 + (c % 64)>>

\* str.encode("utf-8").
EncodeUtf8(s) == Flatten([i \in 1..Len(s) |-> EncodeChar(s[i])])

\* The bytes "%d" formats a non-negative integer to: its decimal ASCII digits.
RECURSIVE FormatInt(_)
FormatInt(n) ==
    IF n < 10 THEN <<48 + n>> ELSE FormatInt(n \div 10) \o <<48 + (n % 10)>>

\* b"DSSEv1", the fixed head of the format string.
Prefix == <<68, 83, 83, 69, 118, 49>>

\* The single space byte between the fields of the format string.
SP == 32

\* A plausible slip: the fields joined without their length prefixes.
PaeNoLengths(ptype, pl) == Prefix \o <<SP>> \o EncodeUtf8(ptype) \o <<SP>> \o pl

\* Envelope.pae: b"DSSEv1 %d %b %d %b" % (len(payload_type),
\* payload_type.encode("utf-8"), len(payload), payload).  len(payload_type)
\* is the length of the str, that is its number of code points.
PAE(ptype, pl) ==
    Prefix \o <<SP>> \o FormatInt(Len(ptype)) \o <<SP>> \o EncodeUtf8(ptype)
           \o <<SP>> \o FormatInt(Len(pl)) \o <<SP>> \o pl

(***************************************************************************)
(* Base64 (securesystemslib.util.b64enc / b64dec): the standard alphabet   *)
(* with '=' padding.                                                       *)
(***************************************************************************)
B64Alphabet ==
    <<65, 66, 67, 68, 69, 70, 71, 72, 73, 74, 75, 76, 77, 78, 79, 80, 81, 82,
      83, 84, 85, 86, 87, 88, 89, 90, 97, 98, 99, 100, 101, 102, 103, 104,
      105, 106, 107, 108, 109, 110, 111, 112, 113, 114, 115, 116, 117, 118,
      119, 120, 121, 122, 48, 49, 50, 51, 52, 53, 54, 55, 56, 57, 43, 47>>

B64Char(v) == B64Alphabet[v + 1]

B64Value(c) == (CHOOSE i \in 1..64 : B64Alphabet[i] = c) - 1

\* '=', the padding character.
B64Pad == 61

RECURSIVE b64enc(_)
b64enc(bs) ==
    IF Len(bs) = 0 THEN <<>>
    ELSE IF Len(bs) = 1
         THEN <<B64Char(bs[1] \div 4), B64Char((bs[1] % 4) * 16), B64Pad, B64Pad>>
    ELSE IF Len(bs) = 2
         THEN <<B64Char(bs[1] \div 4),
                B64Char((bs[1] % 4) * 16 + (bs[2] \div 16)),
                B64Char((bs[2] % 16) * 4), B64Pad>>
    ELSE <<B64Char(bs[1] \div 4),
           B64Char((bs[1] % 4) * 16 + (bs[2] \div 16)),
           B64Char((bs[2] % 16) * 4 + (bs[3] \div 64)),
           B64Char(bs[3] % 64)>> \o b64enc(SubSeq(bs, 4, Len(bs)))

RECURSIVE b64dec(_)
b64dec(cs) ==
    IF Len(cs) < 4 THEN <<>>
    ELSE LET a == B64Value(cs[1])
             b == B64Value(cs[2])
             first == <<a * 4 + (b \div 16)>>
         IN  IF cs[3] = B64Pad THEN first
             ELSE LET c == B64Value(cs[3])
                      second == <<(b % 16) * 16 + (c \div 4)>>
                  IN  IF cs[4] = B64Pad THEN first \o second
                      ELSE first \o second
                           \o <<(c % 4) * 64 + B64Value(cs[4])>>
                           \o b64dec(SubSeq(cs, 5, Len(cs)))

(***************************************************************************)
(* Signer, Key and Signature (securesystemslib.signer).  A signer holds a  *)
(* keyid and secret material; the signature it makes over a message is the *)
(* pair of that material and the message, which only the key of the same   *)
(* material verifies, and only over that message.                          *)
(***************************************************************************)
\* Signers "a1" and "a2" share the keyid "a" with different material.
Signers == {[keyid |-> "a", mat |-> 1], [keyid |-> "a", mat |-> 2],
            [keyid |-> "b", mat |-> 3]}

\* The public key of each signer: same keyid, same material.
Keys == Signers

\* Signer.sign(message) -> Signature.
SignerSign(signer, msg) ==
    [keyid |-> signer.keyid, signature |-> [mat |-> signer.mat, msg |-> msg]]

\* Key.verify_signature(signature, data): TRUE when it returns, FALSE when it
\* raises UnverifiedSignatureError.
verify_signature(key, sig, data) ==
    sig.signature.mat = key.mat /\ sig.signature.msg = data

\* Signature.to_dict / Signature.from_dict.
SignatureToDict(sig) == [keyid |-> sig.keyid, sig |-> sig.signature]

SignatureFromDict(d) == [keyid |-> d.keyid, signature |-> d.sig]

\* formats.SIGNATURES_SCHEMA.check_match: every record has a keyid and a sig.
SignaturesSchemaMatches(ds) ==
    \A i \in 1..Len(ds) : {"keyid", "sig"} \subseteq DOMAIN ds[i]


(***************************************************************************)
(* Envelope.  The object is (payload, payload_type, signatures).           *)
(***************************************************************************)
\* Envelope.__eq__ on two Envelope objects.
EnvelopeEq(a, b) ==
    /\ a.payload = b.payload
    /\ a.payload_type = b.payload_type
    /\ a.signatures = b.signatures

\* Envelope.to_dict.
to_dict(pl, ptype, sigs) ==
    [payload |-> b64enc(pl),
     payloadType |-> ptype,
     signatures |-> [i \in 1..Len(sigs) |-> SignatureToDict(sigs[i])]]

\* A plausible slip: the payload taken from the wire without decoding it.
from_dict_NoDecode(data) ==
    IF ~({"payload", "payloadType", "signatures"} \subseteq DOMAIN data)
    THEN [kind |-> "KeyError"]
    ELSE IF ~SignaturesSchemaMatches(data.signatures)
    THEN [kind |-> "FormatError"]
    ELSE [kind |-> "Envelope",
          payload |-> data.payload,
          payload_type |-> data.payloadType,
          signatures |-> [i \in 1..Len(data.signatures) |->
                             SignatureFromDict(data.signatures[i])]]

\* Envelope.from_dict: the new Envelope, or the error it raises.
from_dict(data) ==
    IF ~({"payload", "payloadType", "signatures"} \subseteq DOMAIN data)
    THEN [kind |-> "KeyError"]
    ELSE IF ~SignaturesSchemaMatches(data.signatures)
    THEN [kind |-> "FormatError"]
    ELSE [kind |-> "Envelope",
          payload |-> b64dec(data.payload),
          payload_type |-> data.payloadType,
          signatures |-> [i \in 1..Len(data.signatures) |->
                             SignatureFromDict(data.signatures[i])]]

\* A plausible slip: the new signature inserted at the front of the list.
sign_Prepend(pl, ptype, sigs, signer) ==
    LET signature == SignerSign(signer, PAE(ptype, pl))
    IN  [signatures |-> <<signature>> \o sigs, ret |-> signature]

\* Envelope.sign: the signature list after the call and the value returned.
sign(pl, ptype, sigs, signer) ==
    LET signature == SignerSign(signer, PAE(ptype, pl))
    IN  [signatures |-> Append(sigs, signature), ret |-> signature]

(***************************************************************************)
(* Envelope.verify.  The scan state st is [accepted, calls]: the dict      *)
(* accepted_keys (a function from keyids to keys) and the                  *)
(* key.verify_signature calls made so far, each <<i, j, ok>> for the call  *)
(* of keys[j] on signatures[i] and whether it returned.                    *)
(***************************************************************************)
EmptyDict == [k \in {} |-> k]

\* Plausible slips in the argument checks and the two threshold tests.
ThresholdInvalid_Strict(threshold) == threshold < 0

\* "if threshold <= 0: raise ValueError".
ThresholdInvalid(threshold) == threshold <= 0

\* "if len(keys) < threshold: raise ValueError".
TooFewKeys(keys, threshold) == Len(keys) < threshold

KeyidMismatch_NoCheck(key, signature) == FALSE

\* "if not key.keyid == signature.keyid: continue".
KeyidMismatch(key, signature) == ~(key.keyid = signature.keyid)

\* "accepted_keys[key.keyid] = key".
Accept(accepted, key) ==
    [k \in DOMAIN accepted \cup {key.keyid} |->
        IF k = key.keyid THEN key ELSE accepted[k]]

ThresholdReached_Late(accepted, threshold) ==
    Cardinality(DOMAIN accepted) > threshold

ThresholdReached_Early(accepted, threshold) ==
    Cardinality(DOMAIN accepted) + 1 >= threshold

\* "if len(accepted_keys) >= threshold: break".
ThresholdReached(accepted, threshold) ==
    Cardinality(DOMAIN accepted) >= threshold

ThresholdUnmet_OffByOne(accepted, threshold) ==
    threshold >= Cardinality(DOMAIN accepted)

\* "if threshold > len(accepted_keys): raise VerificationError".
ThresholdUnmet(accepted, threshold) ==
    threshold > Cardinality(DOMAIN accepted)

\* The inner loop "for key in keys" for signatures[i], from keys[j] on.
RECURSIVE ScanKeys(_, _, _, _, _, _)
ScanKeys(sigs, i, keys, j, data, st) ==
    IF j > Len(keys) THEN st
    ELSE IF KeyidMismatch(keys[j], sigs[i])
    THEN ScanKeys(sigs, i, keys, j + 1, data, st)
    ELSE IF verify_signature(keys[j], sigs[i], data)
    THEN [accepted |-> Accept(st.accepted, keys[j]),
          calls |-> Append(st.calls, <<i, j, TRUE>>)]
    ELSE ScanKeys(sigs, i, keys, j + 1, data,
                  [accepted |-> st.accepted,
                   calls |-> Append(st.calls, <<i, j, FALSE>>)])

\* The outer loop "for signature in self.signatures", from signatures[i] on.
RECURSIVE ScanSignatures(_, _, _, _, _, _)
ScanSignatures(sigs, i, keys, threshold, data, st) ==
    IF i > Len(sigs) THEN st
    ELSE LET after == ScanKeys(sigs, i, keys, 1, data, st)
         IN  IF ThresholdReached(after.accepted, threshold) THEN after
             ELSE ScanSignatures(sigs, i + 1, keys, threshold, data, after)

\* Envelope.verify: what it returns or raises, and the calls it made.
verify(pl, ptype, sigs, keys, threshold) ==
    IF ThresholdInvalid(threshold) THEN [ret |-> [kind |-> "ValueError"], calls |-> <<>>]
    ELSE IF TooFewKeys(keys, threshold)
    THEN [ret |-> [kind |-> "ValueError"], calls |-> <<>>]
    ELSE LET st == ScanSignatures(sigs, 1, keys, threshold, PAE(ptype, pl),
                                  [accepted |-> EmptyDict, calls |-> <<>>])
         IN  IF ThresholdUnmet(st.accepted, threshold)
             THEN [ret |-> [kind |-> "VerificationError",
                            found |-> Cardinality(DOMAIN st.accepted),
                            expected |-> threshold],
                   calls |-> st.calls]
             ELSE [ret |-> [kind |-> "accepted_keys", accepted |-> st.accepted],
                   calls |-> st.calls]

(***************************************************************************)
(* The inputs the specifications draw from.                                *)
(***************************************************************************)
\* "application/vnd.x" and b"hello".
AppVndX == <<97, 112, 112, 108, 105, 99, 97, 116, 105, 111, 110, 47, 118,
             110, 100, 46, 120>>

Hello == <<104, 101, 108, 108, 111>>

\* Space, the digit 1 and a two-byte character (U+00E9).
TypeChars == {32, 49, 233}

\* Space, the digit 1 and a byte that is no UTF-8.
PayloadBytes == {32, 49, 255}

Types == BoundedSeq(TypeChars, MaxTypeLen) \cup {AppVndX}

Payloads == BoundedSeq(PayloadBytes, MaxPayloadLen) \cup {Hello}

\* The envelopes of the signing and verification specifications.
EnvTypes == {AppVndX, <<233>>}

EnvPayloads == {<<>>, Hello}

\* The signatures an envelope may be constructed with: each signer's over the
\* envelope's PAE, one replayed from an envelope of another payload, and one
\* of signer a1 relabelled with keyid "b".
SigPool(ptype, pl) ==
    {SignerSign(s, PAE(ptype, pl)) : s \in Signers}
    \cup {SignerSign([keyid |-> "a", mat |-> 1], PAE(ptype, Append(pl, SP)))}
    \cup {[keyid |-> "b", signature |-> [mat |-> 1, msg |-> PAE(ptype, pl)]]}

KeyLists == BoundedSeq(Keys, MaxKeys)

Thresholds == (0 - 1)..(MaxKeys + 1)

\* The key lists verify is called with in Spec: the sub-lists of one key ring.
KeyRing == <<[keyid |-> "a", mat |-> 1], [keyid |-> "a", mat |-> 2],
             [keyid |-> "b", mat |-> 3]>>

Member(k, S) == k \in S

CallKeyLists == {SelectSeq(KeyRing, LAMBDA k : Member(k, S)) : S \in SUBSET Keys}

\* The wire data from_dict is given: this envelope's, the same without its
\* payload field, and the same with a signature record that has no sig.
WireInputs(pl, ptype, sigs) ==
    {to_dict(pl, ptype, sigs)}
    \cup {[payloadType |-> ptype, signatures |-> <<>>]}
    \cup {[payload |-> b64enc(pl), payloadType |-> ptype,
           signatures |-> <<[keyid |-> "a"]>>]}

NoArg == [none |-> TRUE]

(***************************************************************************)
(* The calls on one Envelope.                                              *)
(***************************************************************************)
PaeCall ==
    /\ op' = "pae"
    /\ arg' = NoArg
    /\ ret' = [kind |-> "bytes", value |-> PAE(payload_type, payload)]
    /\ calls' = <<>>
    /\ UNCHANGED <<payload, payload_type, signatures>>

SignCall(signer) ==
    /\ Len(signatures) < MaxSigs
    /\ LET r == sign(payload, payload_type, signatures, signer)
       IN  /\ signatures' = r.signatures
           /\ ret' = [kind |-> "Signature", value |-> r.ret]
    /\ op' = "sign"
    /\ arg' = [signer |-> signer]
    /\ calls' = <<>>
    /\ UNCHANGED <<payload, payload_type>>

VerifyCall(keys, threshold) ==
    /\ LET r == verify(payload, payload_type, signatures, keys, threshold)
       IN  /\ ret' = r.ret
           /\ calls' = r.calls
    /\ op' = "verify"
    /\ arg' = [keys |-> keys, threshold |-> threshold]
    /\ UNCHANGED <<payload, payload_type, signatures>>

ToDictCall ==
    /\ op' = "to_dict"
    /\ arg' = NoArg
    /\ ret' = [kind |-> "dict", value |-> to_dict(payload, payload_type, signatures)]
    /\ calls' = <<>>
    /\ UNCHANGED <<payload, payload_type, signatures>>

FromDictCall(data) ==
    /\ op' = "from_dict"
    /\ arg' = [data |-> data]
    /\ ret' = from_dict(data)
    /\ calls' = <<>>
    /\ UNCHANGED <<payload, payload_type, signatures>>

Sign == \E signer \in Signers : SignCall(signer)

Verify ==
    \E keys \in CallKeyLists, threshold \in Thresholds : VerifyCall(keys, threshold)

FromDict ==
    \E data \in WireInputs(payload, payload_type, signatures) : FromDictCall(data)

\* A constructed Envelope on which nothing was called yet.
Fresh ==
    /\ op = "new"
    /\ ret = [kind |-> "None"]
    /\ calls = <<>>

(***************************************************************************)
(* Spec: any sequence of calls on one envelope.                            *)
(***************************************************************************)
Init ==
    /\ payload \in EnvPayloads
    /\ payload_type \in EnvTypes
    /\ signatures \in {<<>>} \cup {<<s>> : s \in SigPool(payload_type, payload)}
    /\ arg = NoArg
    /\ Fresh

Next == Sign \/ Verify \/ PaeCall \/ ToDictCall \/ FromDict

Spec == Init /\ [][Next]_vars

(***************************************************************************)
(* SpecVerify: one verify call on an envelope of any bounded signature     *)
(* list, with any bounded key list and threshold.                          *)
(***************************************************************************)
InitVerify ==
    /\ payload \in EnvPayloads
    /\ payload_type \in EnvTypes
    /\ signatures \in BoundedSeq(SigPool(payload_type, payload), MaxSigs)
    /\ arg \in [keys : KeyLists, threshold : Thresholds]
    /\ Fresh

VerifyGiven == op = "new" /\ VerifyCall(arg.keys, arg.threshold)

SpecVerify == InitVerify /\ [][VerifyGiven]_vars

(***************************************************************************)
(* SpecPae: pae() on an envelope of any bounded type and payload.          *)
(***************************************************************************)
InitPae ==
    /\ payload \in Payloads
    /\ payload_type \in Types
    /\ signatures = <<>>
    /\ arg = NoArg
    /\ Fresh

PaeOnce == op = "new" /\ PaeCall

SpecPae == InitPae /\ [][PaeOnce]_vars

(***************************************************************************)
(* SpecWire: to_dict and from_dict on an envelope of any bounded payload   *)
(* and signature list.                                                     *)
(***************************************************************************)
InitWire ==
    /\ payload \in Payloads
    /\ payload_type \in EnvTypes
    /\ signatures \in BoundedSeq(SigPool(payload_type, payload), MaxSigs)
    /\ arg = NoArg
    /\ Fresh

NextWire == ToDictCall \/ FromDict

SpecWire == InitWire /\ [][NextWire]_vars

(***************************************************************************)
(* Properties.                                                             *)
(***************************************************************************)
Self == [payload |-> payload, payload_type |-> payload_type,
         signatures |-> signatures]

CurrentPae == PAE(payload_type, payload)

\* The keyids k such that some signature carrying k validates over the PAE
\* under some supplied key whose keyid is k.
ValidKeyids(sigs, keys, data) ==
    {keys[j].keyid : j \in {j \in 1..Len(keys) :
        \E i \in 1..Len(sigs) : /\ sigs[i].keyid = keys[j].keyid
                                /\ verify_signature(keys[j], sigs[i], data)}}

\* C1: with threshold >= 1 and len(keys) >= threshold, verify returns a mapping
\* if and only if at least threshold distinct keyids have a signature that
\* validates under a supplied key of that keyid, and otherwise raises
\* VerificationError; valid signatures of one keyid count once.
C1_ThresholdIff ==
    (op = "verify" /\ arg.threshold >= 1 /\ Len(arg.keys) >= arg.threshold) =>
        IF Cardinality(ValidKeyids(signatures, arg.keys, CurrentPae)) >= arg.threshold
        THEN ret.kind = "accepted_keys"
        ELSE ret.kind = "VerificationError"

\* Two valid signatures of the same keyid and a threshold of 2: counted once.
C1_Witness ==
    /\ op = "verify"
    /\ arg.threshold = 2
    /\ Len(arg.keys) >= 2
    /\ \E i, j \in 1..Len(signatures) :
          /\ i # j
          /\ signatures[i].keyid = signatures[j].keyid
          /\ \E k \in 1..Len(arg.keys) :
                /\ arg.keys[k].keyid = signatures[i].keyid
                /\ verify_signature(arg.keys[k], signatures[i], CurrentPae)
                /\ verify_signature(arg.keys[k], signatures[j], CurrentPae)
    /\ Cardinality(ValidKeyids(signatures, arg.keys, CurrentPae)) = 1
    /\ ret.kind = "VerificationError"

\* C2: a returned mapping has at least threshold entries, and each entry
\* keyid -> key is a supplied key of that keyid that verifies a signature of
\* the envelope carrying that keyid over the PAE.
C2_AcceptedSound ==
    (op = "verify" /\ ret.kind = "accepted_keys") =>
        /\ Cardinality(DOMAIN ret.accepted) >= arg.threshold
        /\ \A k \in DOMAIN ret.accepted :
              /\ \E j \in 1..Len(arg.keys) : arg.keys[j] = ret.accepted[k]
              /\ ret.accepted[k].keyid = k
              /\ \E i \in 1..Len(signatures) :
                    /\ signatures[i].keyid = k
                    /\ verify_signature(ret.accepted[k], signatures[i], CurrentPae)

\* A successful verify with a supplied key that fails on every signature
\* although its keyid matches one, and a supplied key whose keyid matches none.
C2_Witness ==
    /\ op = "verify"
    /\ ret.kind = "accepted_keys"
    /\ \E j \in 1..Len(arg.keys) :
          /\ \E i \in 1..Len(signatures) : signatures[i].keyid = arg.keys[j].keyid
          /\ \A i \in 1..Len(signatures) :
                ~verify_signature(arg.keys[j], signatures[i], CurrentPae)
    /\ \E j \in 1..Len(arg.keys) :
          \A i \in 1..Len(signatures) : signatures[i].keyid # arg.keys[j].keyid

\* C5: with threshold <= 0 or len(keys) < threshold verify raises ValueError,
\* calls no key.verify_signature and returns no mapping.
C5_InvalidArgument ==
    (op = "verify" /\ (arg.threshold <= 0 \/ Len(arg.keys) < arg.threshold)) =>
        /\ ret.kind = "ValueError"
        /\ calls = <<>>

\* keys = [] with threshold = 1 on an envelope holding a valid signature.
C5_Witness ==
    /\ op = "verify"
    /\ arg.keys = <<>>
    /\ arg.threshold = 1
    /\ \E i \in 1..Len(signatures), k \in Keys :
          verify_signature(k, signatures[i], CurrentPae)
    /\ ret.kind = "ValueError"

\* The keyids accepted once signatures[1..i] are processed, read off the calls.
AcceptedUpTo(i) ==
    {arg.keys[calls[p][2]].keyid :
        p \in {q \in 1..Len(calls) : calls[q][1] <= i /\ calls[q][3]}}

\* C9: verify_signature calls follow the stored order of the signatures and
\* the given order of the keys; once the accepted keyids reach the threshold
\* after a signature, no later signature is tried; no key after the first one
\* that verifies a signature is tried on it; a failed verification does not
\* stop the scan of the remaining keys of matching keyid for that signature.
C9_ShortCircuit ==
    op = "verify" =>
        /\ \A p, q \in 1..Len(calls) :
              p < q => \/ calls[p][1] < calls[q][1]
                       \/ calls[p][1] = calls[q][1] /\ calls[p][2] < calls[q][2]
        /\ \A p \in 1..Len(calls) :
              calls[p][3] = verify_signature(arg.keys[calls[p][2]],
                                             signatures[calls[p][1]], CurrentPae)
        /\ \A i \in 1..Len(signatures) :
              Cardinality(AcceptedUpTo(i)) >= arg.threshold =>
                  \A p \in 1..Len(calls) : calls[p][1] <= i
        /\ \A p, q \in 1..Len(calls) :
              (calls[p][3] /\ calls[q][1] = calls[p][1]) => calls[q][2] <= calls[p][2]
        /\ \A p \in 1..Len(calls) :
              ~calls[p][3] =>
                  \A j \in (calls[p][2] + 1)..Len(arg.keys) :
                      arg.keys[j].keyid = signatures[calls[p][1]].keyid =>
                          \E q \in 1..Len(calls) :
                              /\ calls[q][1] = calls[p][1]
                              /\ \/ calls[q][2] = j
                                 \/ calls[q][3] /\ calls[q][2] < j

\* A verify in which a key failed on a signature and a later key verified it,
\* a further key of that keyid was left untried, and a later signature that a
\* supplied key matches was never tried.
C9_Witness ==
    /\ op = "verify"
    /\ ret.kind = "accepted_keys"
    /\ \E p, q \in 1..Len(calls) :
          /\ ~calls[p][3]
          /\ calls[q][3]
          /\ calls[q][1] = calls[p][1]
          /\ calls[q][2] > calls[p][2]
          /\ \E j \in (calls[q][2] + 1)..Len(arg.keys) :
                arg.keys[j].keyid = signatures[calls[q][1]].keyid
    /\ \E i \in 1..Len(signatures) :
          /\ \A p \in 1..Len(calls) : calls[p][1] < i
          /\ \E j \in 1..Len(arg.keys) : arg.keys[j].keyid = signatures[i].keyid

\* The reorderings of a sequence.
Reorderings(s) ==
    {[i \in 1..Len(s) |-> s[f[i]]] :
        f \in {g \in [1..Len(s) -> 1..Len(s)] :
                  \A a, b \in 1..Len(s) : a # b => g[a] # g[b]}}

VerifyReordered(sigs) ==
    verify(payload, payload_type, sigs, arg.keys, arg.threshold).ret

\* C10 as stated: on any reordering of the signatures verify gives the same
\* error kind or, on success, the same accepted mapping.
C10_SameOutcome ==
    op = "verify" =>
        \A sigs \in Reorderings(signatures) :
            /\ VerifyReordered(sigs).kind = ret.kind
            /\ ret.kind = "accepted_keys" => VerifyReordered(sigs).accepted = ret.accepted

\* C10 amended: on any reordering of the signatures verify gives the same kind
\* of outcome: the same error kind, or a mapping in both cases.
C10_SameOutcomeKind ==
    op = "verify" =>
        \A sigs \in Reorderings(signatures) : VerifyReordered(sigs).kind = ret.kind

\* A successful verify that returns another mapping on a reordering.
C10_Witness ==
    /\ op = "verify"
    /\ ret.kind = "accepted_keys"
    /\ \E sigs \in Reorderings(signatures) :
          /\ VerifyReordered(sigs).kind = "accepted_keys"
          /\ VerifyReordered(sigs).accepted # ret.accepted

\* C3 as stated: pae() is "DSSEv1" SP L1 SP type_utf8 SP L2 SP payload with L1
\* the decimal UTF-8 byte length of payload_type and L2 that of payload.
C3_PaeByteLengths ==
    op = "pae" =>
        ret.value = Prefix \o <<SP>> \o FormatInt(Len(EncodeUtf8(payload_type)))
                    \o <<SP>> \o EncodeUtf8(payload_type) \o <<SP>>
                    \o FormatInt(Len(payload)) \o <<SP>> \o payload

\* C4: two envelopes that differ in type or payload have different PAEs, so
\* no signature over one verifies over the other.
C4_PaeInjective ==
    op = "pae" =>
        \A t \in Types, p \in Payloads :
            (t # payload_type \/ p # payload) =>
                /\ PAE(t, p) # ret.value
                /\ \A s \in Signers :
                      ~verify_signature(s, SignerSign(s, ret.value), PAE(t, p))

\* pae() of an envelope whose fields, joined without length prefixes, read
\* the same as those of another envelope.
C4_Witness ==
    /\ op = "pae"
    /\ \E t \in Types, p \in Payloads :
          /\ t # payload_type
          /\ EncodeUtf8(t) \o <<SP>> \o p
                = EncodeUtf8(payload_type) \o <<SP>> \o payload

\* C8 as stated: the PAE of "application/vnd.x" and b"hello" is
\* b"DSSEv1 18 application/vnd.x 5 hello".
C8_Literal18 ==
    (op = "pae" /\ payload_type = AppVndX /\ payload = Hello) =>
        ret.value = <<68, 83, 83, 69, 118, 49, 32, 49, 56, 32, 97, 112, 112,
                      108, 105, 99, 97, 116, 105, 111, 110, 47, 118, 110, 100,
                      46, 120, 32, 53, 32, 104, 101, 108, 108, 111>>

\* C8 amended: that PAE is b"DSSEv1 17 application/vnd.x 5 hello".
C8_Literal17 ==
    (op = "pae" /\ payload_type = AppVndX /\ payload = Hello) =>
        ret.value = <<68, 83, 83, 69, 118, 49, 32, 49, 55, 32, 97, 112, 112,
                      108, 105, 99, 97, 116, 105, 111, 110, 47, 118, 110, 100,
                      46, 120, 32, 53, 32, 104, 101, 108, 108, 111>>

C8_Witness == op = "pae" /\ payload_type = AppVndX /\ payload = Hello

\* C6: from_dict(to_dict(e)) == e.
C6_RoundTrip ==
    (op = "from_dict" /\ arg.data = to_dict(payload, payload_type, signatures)) =>
        /\ ret.kind = "Envelope"
        /\ EnvelopeEq(ret, Self)

\* The round trip of an envelope of a padded payload and two different
\* signatures.
C6_Witness ==
    /\ op = "from_dict"
    /\ arg.data = to_dict(payload, payload_type, signatures)
    /\ Len(payload) = 2
    /\ Len(signatures) = 2
    /\ signatures[1] # signatures[2]
    /\ ret.kind = "Envelope"

\* C7: no call changes payload or payload_type; sign appends the signature of
\* the signer over the current PAE at the end and returns it; every other
\* call leaves the signatures as they are.
C7_OnlySignAppends ==
    [][/\ payload' = payload
       /\ payload_type' = payload_type
       /\ IF op' = "sign"
          THEN /\ signatures' = Append(signatures, SignerSign(arg'.signer, CurrentPae))
               /\ ret' = [kind |-> "Signature",
                          value |-> SignerSign(arg'.signer, CurrentPae)]
          ELSE signatures' = signatures]_vars

\* Two sign calls with the same signer left two equal entries, the second of
\* them returned by the last call.
C7_Witness ==
    /\ op = "sign"
    /\ Len(signatures) = 2
    /\ signatures[2] = signatures[1]
    /\ signatures[2] = ret.value
    /\ verify_signature(arg.signer, ret.value, CurrentPae)

=============================================================================
